---- MODULE Spec2Model ----
(***************************************************************************)
(* Tutoring API (main.py): the three handlers list_tutors,                 *)
(* seed_sample_data and test_database over a document store with the       *)
(* collections "tutor" and "availability".  Every store call of a handler  *)
(* is one atomic step, taken together with the local computation that     *)
(* follows it; handlers of different requests interleave between their     *)
(* store calls.                                                            *)
(***************************************************************************)
EXTENDS Integers, Sequences, FiniteSets, TLC

\* ----- bounds of the model ------------------------------------------------
\* requests issued in one behaviour
NReq == 2
\* documents of each collection present before the first request (Spec)
MaxInitTutors == 2
MaxInitSlots == 2
\* collections of the database other than "tutor" and "availability"
MaxOther == 11

\* ----- program constants --------------------------------------------------
\* str(e)[:50], main.py lines 147 and 151
ErrCut == 50
\* collections[:10], main.py line 144
CollCut == 10

Req == 1..NReq

\* Python's None
None == "<None>"
\* the store handle imported from database (main.py line 7): unset or a handle
Handle == "<Database>"

\* ----- dates: dt.date.today() + dt.timedelta(days=k), str(date) -----------
IsLeap(y) == (y % 4 = 0 /\ y % 100 # 0) \/ y % 400 = 0

DaysInMonth(y, m) ==
  IF m = 2 THEN (IF IsLeap(y) THEN 29 ELSE 28)
  ELSE IF m \in {4, 6, 9, 11} THEN 30 ELSE 31

NextDay(dt) ==
  IF dt.d < DaysInMonth(dt.y, dt.m) THEN [dt EXCEPT !.d = dt.d + 1]
  ELSE IF dt.m < 12 THEN [y |-> dt.y, m |-> dt.m + 1, d |-> 1]
  ELSE [y |-> dt.y + 1, m |-> 1, d |-> 1]

RECURSIVE AddDays(_, _)
AddDays(dt, k) == IF k = 0 THEN dt ELSE AddDays(NextDay(dt), k - 1)

Pad2(n) == IF n < 10 THEN "0" \o ToString(n) ELSE ToString(n)

\* str(date) is date.isoformat(): YYYY-MM-DD
IsoFormat(dt) == ToString(dt.y) \o "-" \o Pad2(dt.m) \o "-" \o Pad2(dt.d)

\* the calendar dates dt.date.today() may return
Days == { [y |-> 2024, m |-> 2, d |-> 27],
          [y |-> 2025, m |-> 12, d |-> 30] }
NoDate == [y |-> 0, m |-> 0, d |-> 0]

\* ----- documents ----------------------------------------------------------
\* An ObjectId: gen tells documents that were in the store before the
\* process served its first request (0) from those it inserted (1).
ObjectId(gen, name, n) == [gen |-> gen, coll |-> name, n |-> n]

\* str(ObjectId)
ObjectIdStr(oid) == ToString(oid.gen) \o oid.coll \o ToString(oid.n)

\* dict.get(f, default)
Get(doc, f, default) == IF f \in DOMAIN doc THEN doc[f] ELSE default

\* the Tutor(...) literals of seed_sample_data, in list order
SeedTutors == <<
  [name |-> "Alex Chen", subjects |-> <<"Math", "Physics">>,
   bio |-> "STEM tutor with 7+ years helping high school and college students.",
   location |-> "San Francisco, CA",
   photo_url |-> "https://images.unsplash.com/photo-1544005313-94ddf0286df2?w=400",
   rating |-> "4.8"],
  [name |-> "Priya Sharma", subjects |-> <<"English", "Writing", "SAT">>,
   bio |-> "Former teacher specializing in test prep and essays.",
   location |-> "New York, NY",
   photo_url |-> "https://images.unsplash.com/photo-1524504388940-b1c1722653e1?w=400",
   rating |-> "4.9"],
  [name |-> "Miguel Alvarez", subjects |-> <<"Chemistry", "Biology">>,
   bio |-> "Patient explainer of tricky science concepts.",
   location |-> "Austin, TX",
   photo_url |-> "https://images.unsplash.com/photo-1547425260-76bcadfb4f2c?w=400",
   rating |-> "4.7"] >>

\* SeedSlots with the fourth slot given to the third tutor
SeedSlots_WrongOwner == <<
  [owner |-> 1, days |-> 1, time |-> "3:00 PM - 5:00 PM",
   location |-> "Downtown Library", notes |-> "SAT practice"],
  [owner |-> 1, days |-> 3, time |-> "10:00 AM - 12:00 PM",
   location |-> "Online", notes |-> None],
  [owner |-> 2, days |-> 2, time |-> "4:00 PM - 6:00 PM",
   location |-> "Union Square", notes |-> "Essay review"],
  [owner |-> 3, days |-> 5, time |-> "1:00 PM - 2:30 PM",
   location |-> "Online", notes |-> None],
  [owner |-> 3, days |-> 1, time |-> "9:00 AM - 11:00 AM",
   location |-> "Campus Cafe", notes |-> "Lab concepts"] >>

\* the Availability(...) literals: index into tutor_ids (1-based), day offset
\* and the fixed strings
SeedSlots == <<
  [owner |-> 1, days |-> 1, time |-> "3:00 PM - 5:00 PM",
   location |-> "Downtown Library", notes |-> "SAT practice"],
  [owner |-> 1, days |-> 3, time |-> "10:00 AM - 12:00 PM",
   location |-> "Online", notes |-> None],
  [owner |-> 2, days |-> 2, time |-> "4:00 PM - 6:00 PM",
   location |-> "Union Square", notes |-> "Essay review"],
  [owner |-> 2, days |-> 5, time |-> "1:00 PM - 2:30 PM",
   location |-> "Online", notes |-> None],
  [owner |-> 3, days |-> 1, time |-> "9:00 AM - 11:00 AM",
   location |-> "Campus Cafe", notes |-> "Lab concepts"] >>

\* BuildSlots with the position in tutor_ids in place of the identifier
BuildSlots_ByIndex(tutor_ids, today) ==
  [k \in 1..Len(SeedSlots) |->
     [tutor_id |-> ToString(SeedSlots[k].owner),
      date |-> IsoFormat(AddDays(today, SeedSlots[k].days)),
      time |-> SeedSlots[k].time,
      location |-> SeedSlots[k].location,
      notes |-> SeedSlots[k].notes]]

\* slots = [Availability(tutor_id=tutor_ids[..], date=str(today + ...), ...)]
BuildSlots(tutor_ids, today) ==
  [k \in 1..Len(SeedSlots) |->
     [tutor_id |-> tutor_ids[SeedSlots[k].owner],
      date |-> IsoFormat(AddDays(today, SeedSlots[k].days)),
      time |-> SeedSlots[k].time,
      location |-> SeedSlots[k].location,
      notes |-> SeedSlots[k].notes]]

\* ----- the store ----------------------------------------------------------
VARIABLES
  db,            \* the store handle: None or Handle, fixed at import
  clock,         \* the calendar date, NoDate until it is first read
  tutor,         \* collection "tutor", in the store's natural order
  availability,  \* collection "availability", in the store's natural order
  req            \* per request: handler, position, locals and response

vars == <<db, clock, tutor, availability, req>>

\* the identifier the store assigns to a document inserted into coll
NewObjectId(name, coll) == ObjectId(1, name, Len(coll) + 1)

\* create_document(name, data): the stored document; its id is returned as
\* a string
InsertedDoc(name, coll, data) ==
  [f \in DOMAIN data \cup {"_id"} |->
     IF f = "_id" THEN NewObjectId(name, coll) ELSE data[f]]

\* get_documents(name): every document of the collection, in store order
GetDocuments(coll) == coll

\* Matches with an empty filter
Matches_Any(a, tutor_id) == TRUE

\* {"tutor_id": tutor_id} as a filter
Matches(a, tutor_id) == Get(a, "tutor_id", None) = tutor_id

\* list(db["availability"].find({"tutor_id": tutor_id}))
Find(coll, tutor_id) == SelectSeq(coll, LAMBDA a : Matches(a, tutor_id))

\* db["tutor"].count_documents({})
CountDocuments(coll) == Len(coll)

\* outcomes of one store call: it returns (TRUE) or raises (FALSE); with no
\* handle every use of db raises
StoreOutcomes == IF db = None THEN {FALSE} ELSE BOOLEAN

\* ----- responses ----------------------------------------------------------
NoResp == [status |-> 0, cause |-> "", detail |-> "", body |-> <<>>]
Ok(body) == [status |-> 200, cause |-> "", detail |-> "", body |-> body]
\* raise HTTPException(status_code=500, detail=...)
HttpError(detail) ==
  [status |-> 500, cause |-> "HTTPException", detail |-> detail, body |-> <<>>]
\* an exception no handler catches: the framework's 500
Unhandled(cause) ==
  [status |-> 500, cause |-> cause, detail |-> "Internal Server Error",
   body |-> <<>>]

\* DbMissing with the test left out
DbMissing_Never(d) == FALSE

\* if db is None
DbMissing(d) == d = None

EmptyStore == [tutor |-> <<>>, availability |-> <<>>]
Store == [tutor |-> tutor, availability |-> availability]

\* a request not yet received.  snap (the store when the request arrived)
\* and calls (store calls issued so far) record the run of a handler; the
\* other fields are the handler's locals.
Idle == [kind |-> "none", pc |-> "idle", tutors |-> <<>>, i |-> 0,
         results |-> <<>>, tutor_count |-> 0, tutor_ids |-> <<>>,
         today |-> NoDate, slots |-> <<>>, calls |-> 0,
         snap |-> EmptyStore, resp |-> NoResp]

InFlight == {r \in Req : req[r].pc \notin {"idle", "done"}}

\* request r arrives: requests are numbered in arrival order, and at most
\* limit handlers run at once
Arrives(r, limit) ==
  /\ req[r].pc = "idle"
  /\ \A q \in Req : q < r => req[q].pc # "idle"
  /\ Cardinality(InFlight) < limit

\* ----- list_tutors --------------------------------------------------------
NoneList == <<None>>

\* SubjectsOf without the default
SubjectsOf_NoDefault(t) == Get(t, "subjects", NoneList)

\* subjects=t.get("subjects", [])
SubjectsOf(t) == Get(t, "subjects", <<>>)

\* a["id"] = str(a.get("_id")); a.pop("_id", None)
Shape(a) ==
  [f \in (DOMAIN a \ {"_id"}) \cup {"id"} |->
     IF f = "id" THEN ObjectIdStr(a["_id"]) ELSE a[f]]

ShapeAll(avails) == [k \in 1..Len(avails) |-> Shape(avails[k])]

\* the keyword arguments of TutorOut(...)
TutorView(t, avails) ==
  [id |-> ObjectIdStr(t["_id"]),
   name |-> Get(t, "name", None),
   subjects |-> SubjectsOf(t),
   bio |-> Get(t, "bio", None),
   location |-> Get(t, "location", None),
   photo_url |-> Get(t, "photo_url", None),
   rating |-> Get(t, "rating", None),
   availabilities |-> avails]

\* TutorOutValid with name declared Optional
TutorOutValid_OptionalName(v) == v.subjects # NoneList

\* pydantic validation of TutorOut: name: str and subjects: List[str] are
\* required and not Optional
TutorOutValid(v) == v.name # None /\ v.subjects # NoneList

ListStart(r, limit) ==
  /\ Arrives(r, limit)
  /\ req' = [req EXCEPT ![r] =
       IF DbMissing(db)
       THEN [@ EXCEPT !.kind = "list", !.snap = Store, !.pc = "done",
                      !.resp = HttpError("Database not configured")]
       ELSE [@ EXCEPT !.kind = "list", !.snap = Store, !.pc = "get_tutors"]]
  /\ UNCHANGED <<db, clock, tutor, availability>>

ListGetTutors(r) ==
  /\ req[r].pc = "get_tutors"
  /\ \E ok \in StoreOutcomes :
       req' = [req EXCEPT ![r] =
         IF ok
         THEN [@ EXCEPT !.calls = @ + 1, !.tutors = GetDocuments(tutor),
                        !.i = 1, !.pc = "join"]
         ELSE [@ EXCEPT !.calls = @ + 1, !.pc = "done",
                        !.resp = Unhandled("StoreError")]]
  /\ UNCHANGED <<db, clock, tutor, availability>>

\* one iteration of the loop over tutors
ListJoin(r) ==
  /\ req[r].pc = "join"
  /\ req[r].i <= Len(req[r].tutors)
  /\ \E ok \in StoreOutcomes :
       LET t == req[r].tutors[req[r].i]
           v == TutorView(t, ShapeAll(Find(availability, ObjectIdStr(t["_id"]))))
       IN req' = [req EXCEPT ![r] =
            IF ~ok
            THEN [@ EXCEPT !.calls = @ + 1, !.pc = "done",
                           !.resp = Unhandled("StoreError")]
            ELSE IF ~TutorOutValid(v)
            THEN [@ EXCEPT !.calls = @ + 1, !.pc = "done",
                           !.resp = Unhandled("ValidationError")]
            ELSE [@ EXCEPT !.calls = @ + 1, !.i = @ + 1,
                           !.results = Append(@, v)]]
  /\ UNCHANGED <<db, clock, tutor, availability>>

ListReturn(r) ==
  /\ req[r].pc = "join"
  /\ req[r].i > Len(req[r].tutors)
  /\ req' = [req EXCEPT ![r].pc = "done", ![r].resp = Ok(req[r].results)]
  /\ UNCHANGED <<db, clock, tutor, availability>>

\* ----- seed_sample_data ---------------------------------------------------
\* AlreadySeeded testing for more than the roster
AlreadySeeded_Above3(tutor_count) == tutor_count > 3

\* AlreadySeeded testing for a complete roster
AlreadySeeded_Full(tutor_count) == tutor_count >= 3

\* if tutor_count > 0
AlreadySeeded(tutor_count) == tutor_count > 0

SeedStart(r, limit) ==
  /\ Arrives(r, limit)
  /\ req' = [req EXCEPT ![r] =
       IF DbMissing(db)
       THEN [@ EXCEPT !.kind = "seed", !.snap = Store, !.pc = "done",
                      !.resp = HttpError("Database not configured")]
       ELSE [@ EXCEPT !.kind = "seed", !.snap = Store, !.pc = "count"]]
  /\ UNCHANGED <<db, clock, tutor, availability>>

SeedCount(r) ==
  /\ req[r].pc = "count"
  /\ \E ok \in StoreOutcomes :
       LET n == CountDocuments(tutor)
       IN req' = [req EXCEPT ![r] =
            IF ~ok
            THEN [@ EXCEPT !.calls = @ + 1, !.pc = "done",
                           !.resp = Unhandled("StoreError")]
            ELSE IF AlreadySeeded(n)
            THEN [@ EXCEPT !.calls = @ + 1, !.tutor_count = n, !.pc = "done",
                           !.resp = Ok([message |-> "Data already exists",
                                        tutors |-> n])]
            ELSE [@ EXCEPT !.calls = @ + 1, !.tutor_count = n,
                           !.pc = "ins_tutor"]]
  /\ UNCHANGED <<db, clock, tutor, availability>>

\* dt.date.today(): any date of Days at the first reading; the date does
\* not change in the course of a behaviour
Today == IF clock = NoDate THEN Days ELSE {clock}

\* one iteration of: for t in tutors: tid = create_document("tutor", t);
\* after the last one, today = dt.date.today() and slots = [...]
SeedInsertTutor(r) ==
  /\ req[r].pc = "ins_tutor"
  /\ \E ok \in StoreOutcomes, d \in Today :
       LET k == Len(req[r].tutor_ids) + 1
           doc == InsertedDoc("tutor", tutor, SeedTutors[k])
           ids == Append(req[r].tutor_ids, ObjectIdStr(doc["_id"]))
       IN IF ~ok
          THEN /\ tutor' = tutor
               /\ clock' = clock
               /\ req' = [req EXCEPT ![r].calls = @ + 1, ![r].pc = "done",
                                     ![r].resp = Unhandled("StoreError")]
          ELSE IF k < Len(SeedTutors)
          THEN /\ tutor' = Append(tutor, doc)
               /\ clock' = clock
               /\ req' = [req EXCEPT ![r].calls = @ + 1, ![r].tutor_ids = ids]
          ELSE /\ tutor' = Append(tutor, doc)
               /\ clock' = d
               /\ req' = [req EXCEPT ![r].calls = @ + 1, ![r].tutor_ids = ids,
                                     ![r].today = d,
                                     ![r].slots = BuildSlots(ids, d),
                                     ![r].i = 1, ![r].pc = "ins_slot"]
  /\ UNCHANGED <<db, availability>>

\* one iteration of: for s in slots: create_document("availability", s);
\* after the last one, the return
SeedInsertSlot(r) ==
  /\ req[r].pc = "ins_slot"
  /\ \E ok \in StoreOutcomes :
       IF ~ok
       THEN /\ availability' = availability
            /\ req' = [req EXCEPT ![r].calls = @ + 1, ![r].pc = "done",
                                  ![r].resp = Unhandled("StoreError")]
       ELSE /\ availability' = Append(availability,
                 InsertedDoc("availability", availability,
                             req[r].slots[req[r].i]))
            /\ req' = [req EXCEPT ![r] =
                 IF req[r].i < Len(req[r].slots)
                 THEN [@ EXCEPT !.calls = @ + 1, !.i = @ + 1]
                 ELSE [@ EXCEPT !.calls = @ + 1, !.i = @ + 1, !.pc = "done",
                         !.resp = Ok([message |->
                                        "Seeded sample tutors and availability",
                                      tutors |-> Len(SeedTutors),
                                      slots |-> Len(req[r].slots)])]]
  /\ UNCHANGED <<db, clock, tutor>>

\* ----- test_database ------------------------------------------------------
\* The check-mark, cross and warning signs that open the status strings of
\* main.py are written [ok], [x] and [!].

Min(a, b) == IF a < b THEN a ELSE b

\* Truncate without the slice
Truncate_None(s) == s

\* str(e)[:50]
Truncate(s) == SubSeq(s, 1, Min(Len(s), ErrCut))

\* collections[:10]
FirstCollections(names) == SubSeq(names, 1, Min(Len(names), CollCut))

\* what str(e) may be when db.list_collection_names() raises: shorter
\* than, as long as, and longer than the cut
ErrMsgs == { "not authorized on test to execute command",
             "localhost:27017: [Errno 111] Connection refused, T",
             "localhost:27017: [Errno 111] Connection refused, Timeout: 30s, Topology Description: <TopologyDescription>" }

OtherCounts == {0, MaxOther}

\* db.list_collection_names(): a collection exists once it holds a
\* document; n collections of other applications share the database
CollectionNames(n) ==
  (IF tutor # <<>> THEN <<"tutor">> ELSE <<>>)
  \o (IF availability # <<>> THEN <<"availability">> ELSE <<>>)
  \o [k \in 1..n |-> "c" \o ToString(k)]

\* "... Set" if os.getenv(name) else "... Not Set"
EnvReport(present) == IF present THEN "[ok] Set" ELSE "[x] Not Set"

\* what os.getenv may find: database.py sets db only when both variables
\* are set
EnvStates(d) ==
  { e \in [DATABASE_URL : BOOLEAN, DATABASE_NAME : BOOLEAN] :
      (e.DATABASE_URL /\ e.DATABASE_NAME) <=> d # None }

\* the response dict at the return of test_database; listing is what
\* db.list_collection_names() did and e what os.getenv finds
TestBody(d, listing, e) ==
  [backend |-> "[ok] Running",
   database |->
     IF DbMissing(d) THEN "[!]  Available but not initialized"
     ELSE IF listing.ok THEN "[ok] Connected & Working"
     ELSE "[!]  Connected but Error: " \o Truncate(listing.msg),
   database_url |-> EnvReport(e.DATABASE_URL),
   database_name |-> EnvReport(e.DATABASE_NAME),
   connection_status |-> IF DbMissing(d) THEN "Not Connected" ELSE "Connected",
   collections |->
     IF ~DbMissing(d) /\ listing.ok THEN FirstCollections(listing.names)
     ELSE <<>>]

\* the listings db.list_collection_names() may produce
Listings ==
  {[ok |-> TRUE, names |-> CollectionNames(n), msg |-> ""] : n \in OtherCounts}
  \cup {[ok |-> FALSE, names |-> <<>>, msg |-> m] : m \in ErrMsgs}

\* the whole handler: it issues at most one store call
TestDatabase(r, limit) ==
  /\ Arrives(r, limit)
  /\ \E listing \in Listings, e \in EnvStates(db) :
       /\ DbMissing(db) => listing = [ok |-> FALSE, names |-> <<>>,
                                      msg |-> CHOOSE m \in ErrMsgs : TRUE]
       /\ req' = [req EXCEPT ![r].kind = "test", ![r].snap = Store,
                             ![r].calls = IF DbMissing(db) THEN 0 ELSE 1,
                             ![r].pc = "done",
                             ![r].resp = Ok(TestBody(db, listing, e))]
  /\ UNCHANGED <<db, clock, tutor, availability>>

\* ----- initial states -----------------------------------------------------
\* tutor documents as another writer may have left them: complete, without
\* name, and with nothing but a name
TutorShapes ==
  { [name |-> "Dana Lee", subjects |-> <<"Art">>, bio |-> "Painter.",
     location |-> "Boston, MA", photo_url |-> "https://example.org/d.png",
     rating |-> "4.5"],
    [subjects |-> <<"Music">>, bio |-> "Pianist.", location |-> "Denver, CO",
     photo_url |-> "https://example.org/m.png", rating |-> "4.1"],
    [name |-> "Sam Roe"] }

WithId(data, oid) ==
  [f \in DOMAIN data \cup {"_id"} |-> IF f = "_id" THEN oid ELSE data[f]]

InitTutors ==
  UNION { { [k \in 1..n |-> WithId(f[k], ObjectId(0, "tutor", k))] :
            f \in [1..n -> TutorShapes] } : n \in 0..MaxInitTutors }

\* identifiers a slot left by another writer may refer to: the first
\* tutor document, and one that no tutor document has
InitTutorIds == { ObjectIdStr(ObjectId(0, "tutor", k)) : k \in 0..1 }

InitSlots ==
  UNION { { [k \in 1..n |->
               WithId([tutor_id |-> f[k], date |-> "2025-03-01",
                       time |-> "8:00 AM - 9:00 AM", location |-> "Online",
                       notes |-> None],
                      ObjectId(0, "availability", k))] :
            f \in [1..n -> InitTutorIds] } : n \in 0..MaxInitSlots }

\* the process has started and received no request
InitProcess ==
  /\ db \in {None, Handle}
  /\ clock = NoDate
  /\ req = [r \in Req |-> Idle]

\* any store content, requests handled one after the other
Init ==
  /\ InitProcess
  /\ tutor \in InitTutors
  /\ availability \in InitSlots

\* an empty store, written by this process only
InitEmpty ==
  /\ InitProcess
  /\ tutor = <<>>
  /\ availability = <<>>

SeedStep(r, limit) ==
  \/ SeedStart(r, limit)
  \/ SeedCount(r)
  \/ SeedInsertTutor(r)
  \/ SeedInsertSlot(r)

Step(r, limit) ==
  \/ ListStart(r, limit)
  \/ ListGetTutors(r)
  \/ ListJoin(r)
  \/ ListReturn(r)
  \/ SeedStep(r, limit)
  \/ TestDatabase(r, limit)

Next == \E r \in Req : Step(r, 1)

\* The framework runs the handlers on a pool of threads.  Two threads are
\* modelled: at most two handlers are in flight at once under SpecOverlap,
\* however many requests arrive.
Workers == {"w1", "w2"}

\* The read-only handlers write neither collection; the overlapping runs
\* are those of the handler that writes.
NextOverlap == \E r \in Req : SeedStep(r, Cardinality(Workers))

\* requests one after the other, over any store content
Spec == Init /\ [][Next]_vars

\* seed requests on two threads, over a store that starts empty
SpecOverlap == InitEmpty /\ [][NextOverlap]_vars

\* ----- properties ---------------------------------------------------------
Done(r, kind) == req[r].pc = "done" /\ req[r].kind = kind

\* the handler of r ended without a store call raising
NoStoreError(r) == req[r].resp.cause # "StoreError"

HasName(t) == "name" \in DOMAIN t

AllNamed(docs) == \A k \in 1..Len(docs) : HasName(docs[k])

\* the availability records of a store content that refer to the tutor
\* identifier id, shaped for output, in store order
SlotsFor(store, id) ==
  ShapeAll(SelectSeq(store.availability, LAMBDA a : a["tutor_id"] = id))

\* body is the join of store: one view per tutor document in store order,
\* each with exactly the records that refer to it
IsJoinOf(body, store) ==
  /\ Len(body) = Len(store.tutor)
  /\ \A k \in 1..Len(body) :
       /\ body[k].id = ObjectIdStr(store.tutor[k]["_id"])
       /\ body[k].availabilities = SlotsFor(store, body[k].id)
  /\ \A j \in 1..Len(store.availability) :
       LET a == store.availability[j]
       IN (\A k \in 1..Len(store.tutor) :
             a["tutor_id"] # ObjectIdStr(store.tutor[k]["_id"]))
          => \A k \in 1..Len(body) :
               \A n \in 1..Len(body[k].availabilities) :
                 body[k].availabilities[n].id # ObjectIdStr(a["_id"])

C8_Defaults ==
  \A r \in Req :
    Done(r, "list") /\ db # None /\ NoStoreError(r)
    /\ AllNamed(req[r].snap.tutor)
      => /\ req[r].resp.status = 200
         /\ Len(req[r].resp.body) = Len(req[r].snap.tutor)
         /\ \A k \in 1..Len(req[r].snap.tutor) :
              LET t == req[r].snap.tutor[k]
                  v == req[r].resp.body[k]
              IN /\ "subjects" \notin DOMAIN t => v.subjects = <<>>
                 /\ (\A j \in 1..Len(req[r].snap.availability) :
                       req[r].snap.availability[j]["tutor_id"]
                         # ObjectIdStr(t["_id"]))
                      => v.availabilities = <<>>
                 /\ \A f \in {"bio", "location", "photo_url", "rating"} :
                      f \notin DOMAIN t => v[f] = None

\* a successful listing of a tutor document that has a name only and that
\* no slot refers to
C8_Witness ==
  \E r \in Req :
    /\ Done(r, "list") /\ req[r].resp.status = 200
    /\ \E k \in 1..Len(req[r].snap.tutor) :
         /\ DOMAIN req[r].snap.tutor[k] = {"_id", "name"}
         /\ req[r].resp.body[k].availabilities = <<>>
         /\ req[r].resp.body[k].subjects = <<>>

Seeded(r) ==
  /\ Done(r, "seed") /\ req[r].resp.status = 200
  /\ req[r].resp.body.message = "Seeded sample tutors and availability"

Exists(r) ==
  /\ Done(r, "seed") /\ req[r].resp.status = 200
  /\ req[r].resp.body.message = "Data already exists"

\* C2: of two successful seed calls made one after the other on a store
\* that was empty, the first reports the seeding of 3 tutors and 5 slots,
\* the second issues the count only and reports "Data already exists" with
\* tutors 3, and the store holds 3 tutor and 5 availability documents; and
\* a successful seed call that counted more than zero tutors leaves both
\* collections as it found them.
C2_SeedTwice ==
  /\ \A r1, r2 \in Req :
       /\ r1 # r2
       /\ Done(r1, "seed") /\ req[r1].resp.status = 200
       /\ Done(r2, "seed") /\ req[r2].resp.status = 200
       /\ req[r1].snap = EmptyStore
       => /\ Seeded(r1)
          /\ req[r1].resp.body.tutors = 3
          /\ req[r1].resp.body.slots = 5
          /\ Exists(r2)
          /\ req[r2].resp.body.tutors = 3
          /\ req[r2].calls = 1
          /\ Len(tutor) = 3
          /\ Len(availability) = 5
  /\ \A r \in Req :
       Done(r, "seed") /\ req[r].resp.status = 200
       /\ req[r].snap.tutor # <<>>
       => /\ Exists(r)
          /\ req[r].resp.body.tutors = Len(req[r].snap.tutor)
          /\ tutor = req[r].snap.tutor
          /\ availability = req[r].snap.availability

\* two seed calls on a store that was empty have both returned normally
C2_Witness ==
  /\ Seeded(1) /\ req[1].snap = EmptyStore
  /\ Exists(2)

\* C3 as stated: in a store that starts empty and that seed alone writes,
\* whatever the interleaving of the seed requests, the tutor collection
\* never holds more than 3 documents nor the availability collection more
\* than 5.
C3_SeededOnce == Len(tutor) <= 3 /\ Len(availability) <= 5

\* C4: with no store handle, list_tutors and seed_sample_data end with
\* status 500 and detail "Database not configured" having issued no store
\* call and left the store as it was, and test_database returns status 200
\* reporting "Not Connected" and no collections.
C4_NoHandle ==
  db = None =>
    \A r \in Req :
      /\ Done(r, "list") \/ Done(r, "seed")
           => /\ req[r].resp.status = 500
              /\ req[r].resp.detail = "Database not configured"
              /\ req[r].resp.body = <<>>
              /\ req[r].calls = 0
              /\ Store = req[r].snap
      /\ Done(r, "test")
           => /\ req[r].resp.status = 200
              /\ req[r].resp.body.connection_status = "Not Connected"
              /\ req[r].resp.body.database
                   = "[!]  Available but not initialized"
              /\ req[r].resp.body.collections = <<>>
              /\ req[r].calls = 0

\* with no handle a seed call and a diagnostic call have ended
C4_Witness ==
  /\ db = None
  /\ \E r1, r2 \in Req : Done(r1, "seed") /\ Done(r2, "test")

\* the identifier, as a string, of the k-th tutor document of the store
TutorIdAt(k) == ObjectIdStr(tutor[k]["_id"])

\* C5: after a successful seed call on an empty store the tutor collection
\* is Alex Chen, Priya Sharma, Miguel Alvarez in this order, and the
\* availability collection is five slots that refer to the first, first,
\* second, second and third tutor by the assigned identifiers, dated the
\* seed-time date plus 1, 3, 2, 5 and 1 days, written YYYY-MM-DD.
C5_SeedContent ==
  \A r \in Req :
    Seeded(r) /\ req[r].snap = EmptyStore
      => /\ [k \in 1..Len(tutor) |-> tutor[k].name]
              = <<"Alex Chen", "Priya Sharma", "Miguel Alvarez">>
         /\ [k \in 1..Len(availability) |-> availability[k].tutor_id]
              = <<TutorIdAt(1), TutorIdAt(1), TutorIdAt(2), TutorIdAt(2),
                  TutorIdAt(3)>>
         /\ [k \in 1..Len(availability) |-> availability[k].date]
              = <<IsoFormat(AddDays(req[r].today, 1)),
                  IsoFormat(AddDays(req[r].today, 3)),
                  IsoFormat(AddDays(req[r].today, 2)),
                  IsoFormat(AddDays(req[r].today, 5)),
                  IsoFormat(AddDays(req[r].today, 1))>>
         /\ req[r].today = [y |-> 2024, m |-> 2, d |-> 27]
              => [k \in 1..Len(availability) |-> availability[k].date]
                   = <<"2024-02-28", "2024-03-01", "2024-02-29",
                       "2024-03-03", "2024-02-28">>
         /\ req[r].today = [y |-> 2025, m |-> 12, d |-> 30]
              => [k \in 1..Len(availability) |-> availability[k].date]
                   = <<"2025-12-31", "2026-01-02", "2026-01-01",
                       "2026-01-04", "2025-12-31">>

\* a seed call on an empty store has returned normally on 27 February 2024
C5_Witness ==
  \E r \in Req :
    /\ Seeded(r) /\ req[r].snap = EmptyStore
    /\ req[r].today = [y |-> 2024, m |-> 2, d |-> 27]

ErrPrefix == "[!]  Connected but Error: "

IsListingError(body) ==
  /\ Len(body.database) >= Len(ErrPrefix)
  /\ SubSeq(body.database, 1, Len(ErrPrefix)) = ErrPrefix

\* C6: test_database returns status 200 whether the handle is unset, the
\* listing succeeds or the listing raises; the error it embeds is the
\* exception's message cut to at most 50 characters, and collections holds
\* at most 10 names.
C6_DiagnosticReturns ==
  \A r \in Req :
    Done(r, "test")
      => /\ req[r].resp.status = 200
         /\ Len(req[r].resp.body.collections) <= 10
         /\ IsListingError(req[r].resp.body)
              => LET rest == SubSeq(req[r].resp.body.database,
                                    Len(ErrPrefix) + 1,
                                    Len(req[r].resp.body.database))
                 IN /\ Len(rest) <= 50
                    /\ \E m \in ErrMsgs :
                         /\ Len(rest) = IF Len(m) < 50 THEN Len(m) ELSE 50
                         /\ rest = SubSeq(m, 1, Len(rest))
                    /\ req[r].resp.body.collections = <<>>

\* one diagnostic call embedded an error of 50 characters cut from a
\* longer message and another returned 10 collection names
C6_Witness ==
  \E r1, r2 \in Req :
    /\ Done(r1, "test") /\ IsListingError(req[r1].resp.body)
    /\ req[r1].resp.body.database
         = ErrPrefix \o "localhost:27017: [Errno 111] Connection refused, T"
    /\ Done(r2, "test") /\ Len(req[r2].resp.body.collections) = 10
    /\ Len(tutor) > 0

\* the seed call of f failed at an insert after it had written a tutor
PartialSeed(f) ==
  /\ Done(f, "seed")
  /\ req[f].resp.cause = "StoreError"
  /\ Len(req[f].tutor_ids) >= 1

\* the slots the seed call of r has written
SlotsWritten(r) == IF req[r].slots = <<>> THEN 0 ELSE req[r].i - 1

\* C9: when a seed call has failed at an insert after writing a tutor
\* document, it ended in a server error, the store keeps what the call
\* wrote and receives nothing more, and every later seed call that reads
\* the count reports "Data already exists" with that count, between 1 and
\* 3, having written nothing.
C9_PartialSeedStays ==
  \A f \in Req :
    PartialSeed(f)
      => /\ req[f].resp.status = 500
         /\ [k \in 1..Len(tutor) |-> TutorIdAt(k)] = req[f].tutor_ids
         /\ Len(availability)
              = Len(req[f].snap.availability) + SlotsWritten(f)
         /\ Len(tutor) < 3 \/ SlotsWritten(f) < 5
         /\ \A r \in Req :
              r > f /\ Done(r, "seed") /\ NoStoreError(r)
                => /\ Exists(r)
                   /\ req[r].resp.body.tutors = Len(req[f].tutor_ids)
                   /\ req[r].resp.body.tutors \in 1..3
                   /\ req[r].calls = 1
                   /\ req[r].tutor_ids = <<>>

\* a seed call failed after two tutors and a later seed call has returned
C9_Witness ==
  \E f, r \in Req :
    /\ PartialSeed(f) /\ Len(req[f].tutor_ids) = 2
    /\ r > f /\ Exists(r)

\* C10: in a store that starts empty and that seed alone writes, every
\* availability document refers to a tutor document present in the store,
\* also after a failed insert and inside overlapping seed calls.
C10_NoOrphanSlot ==
  \A j \in 1..Len(availability) :
    \E k \in 1..Len(tutor) : availability[j].tutor_id = TutorIdAt(k)

\* two seed calls overlapped: one failed at an insert after writing slots
\* while the other is writing its slots
C10_Witness ==
  \E r1, r2 \in Req :
    /\ r1 # r2
    /\ PartialSeed(r1) /\ SlotsWritten(r1) >= 1
    /\ req[r2].pc = "ins_slot" /\ SlotsWritten(r2) >= 1
    /\ Len(tutor) = 6
====
